---- MODULE Spec2Model ----
(***************************************************************************)
(* A model of src/uxn.c: the host of the uxn virtual machine on the        *)
(* Flipper.  Three threads of control touch the session state (UxnState):  *)
(* the application thread (uxn_app), the input service thread that runs    *)
(* input_callback, and the timer service thread that runs timer_callback.  *)
(* The interpreter (uxn_eval) and the screen device (screen_deo,           *)
(* screen_dei, screen_resize) live in uxn/, outside src/; they are         *)
(* modelled from their interface as the specification describes it.        *)
(***************************************************************************)
EXTENDS Integers, Sequences, FiniteSets, TLC

(***************************************************************************)
(* Bytes and the C operators the code uses on them.                        *)
(***************************************************************************)
Byte == 0..255

Bit(n, i) == (n \div (2 ^ i)) % 2

\* a & b on the low eight bits
BitAnd(a, b) ==
    Bit(a, 0) * Bit(b, 0) + 2 * Bit(a, 1) * Bit(b, 1)
    + 4 * Bit(a, 2) * Bit(b, 2) + 8 * Bit(a, 3) * Bit(b, 3)
    + 16 * Bit(a, 4) * Bit(b, 4) + 32 * Bit(a, 5) * Bit(b, 5)
    + 64 * Bit(a, 6) * Bit(b, 6) + 128 * Bit(a, 7) * Bit(b, 7)

\* ~b, as seen through the uint8_t it is stored back into
BitNot(b) == 255 - (b % 256)

\* a | b on the low eight bits (De Morgan on the two operators above)
BitOr(a, b) == BitNot(BitAnd(BitNot(a), BitNot(b)))

(***************************************************************************)
(* Input keys and event types (the InputKey and InputType enumerations of  *)
(* the firmware), and button_bit.                                          *)
(***************************************************************************)
Keys == {"Ok", "Back", "Up", "Down", "Left", "Right"}
Types == {"Press", "Release", "Short", "Long", "Repeat"}

button_bit(key) ==
    CASE key = "Ok" -> 1
      [] key = "Back" -> 2
      [] key = "Up" -> 16
      [] key = "Down" -> 32
      [] key = "Left" -> 64
      [] key = "Right" -> 128
      [] OTHER -> 0

\* the press storing the bit instead of or-ing it in
MaskPressAssign(mask, key) == button_bit(key)

\* state->uxn.dev[0x82] |= button_bit(event->key)
MaskPress(mask, key) == BitOr(mask, button_bit(key))

\* the release and-ing with the bit instead of with its complement
MaskReleaseNoComplement(mask, key) == BitAnd(mask, button_bit(key))

\* state->uxn.dev[0x82] &= ~button_bit(event->key)
MaskRelease(mask, key) == BitAnd(mask, BitNot(button_bit(key)))

\* the two bytes of the vector taken in the wrong order
VectorSwapped(hi, lo) == (lo * 256 + hi) % 65536

\* dev[hi] << 8 | dev[lo], truncated to uint16_t
Vector(hi, lo) == (hi * 256 + lo) % 65536

\* the device registers the handlers name
ScreenVecHi == 32
ScreenVecLo == 33
CtrlVecHi == 128
CtrlVecLo == 129
CtrlButton == 130
\* the reset vector uxn_app resumes at
ResetVector == 256
\* the device selector emu_dei and emu_deo give to the screen device
ScreenDev == 2

(***************************************************************************)
(* Bounds of the model.                                                    *)
(***************************************************************************)
\* timer ticks delivered in one run
MaxTicks == 2
\* input events delivered in one run
MaxEvents == 2
\* device accesses one resumption of the interpreter makes before it halts
MaxVMSteps == 2

(***************************************************************************)
(* Byte arrays that start zeroed: the device registers (uint8_t dev[0x100] *)
(* = {0}) and the two colour planes (screen_resize clears them).  An array *)
(* is kept as the function from the indices of its nonzero bytes to those  *)
(* bytes; every other byte of it is 0.                                     *)
(***************************************************************************)
Zeroed == [i \in {} |-> 0]

ByteAt(p, i) == IF i \in DOMAIN p THEN p[i] ELSE 0

ByteSet(p, i, c) ==
    IF c = 0
    THEN [j \in (DOMAIN p) \ {i} |-> p[j]]
    ELSE [j \in (DOMAIN p) \cup {i} |-> IF j = i THEN c ELSE p[j]]

(***************************************************************************)
(* The display: 128 x 64 pixels, two colour planes indexed row-major.      *)
(***************************************************************************)
ScreenW == 128
ScreenH == 64

(***************************************************************************)
(* The screen device, uxn/devices/screen.c, as its interface describes it. *)
(* screen_deo reads the register block of the device; a write to the pixel *)
(* port (0x2e) puts colour d[0x2e] & 3 at (x, y) = (d[0x28..29],           *)
(* d[0x2a..2b]) of the foreground plane when d[0x2e] & 0x40, else of the   *)
(* background plane.  screen_dei answers the size ports itself.            *)
(***************************************************************************)
PixelPort == 14

screen_deo(scr, d, port) ==
    IF port = PixelPort
    THEN LET x == Vector(ByteAt(d, 40), ByteAt(d, 41))
             y == Vector(ByteAt(d, 42), ByteAt(d, 43))
             c == ByteAt(d, 46) % 4
         IN  IF x < ScreenW /\ y < ScreenH
             THEN IF Bit(ByteAt(d, 46), 6) = 1
                  THEN [scr EXCEPT !.fg = ByteSet(scr.fg, x + y * ScreenW, c)]
                  ELSE [scr EXCEPT !.bg = ByteSet(scr.bg, x + y * ScreenW, c)]
             ELSE scr
    ELSE scr

screen_dei(d, addr) ==
    CASE addr = 34 -> ScreenW \div 256
      [] addr = 35 -> ScreenW % 256
      [] addr = 36 -> ScreenH \div 256
      [] addr = 37 -> ScreenH % 256
      [] OTHER -> ByteAt(d, addr)

(***************************************************************************)
(* The device router, emu_dei and emu_deo.                                 *)
(***************************************************************************)
\* Uint8 port = addr & 0x0f, dev = addr >> 4
PortOf(addr) == addr % 16
DevOf(addr) == addr \div 16

\* a read indexed by the port instead of the address
emu_dei_port(d, addr) ==
    IF DevOf(addr) = ScreenDev
    THEN [value |-> screen_dei(d, addr), delegated |-> TRUE]
    ELSE [value |-> ByteAt(d, PortOf(addr)), delegated |-> FALSE]

\* the value emu_dei returns, and whether screen_dei supplied it
emu_dei(d, addr) ==
    IF DevOf(addr) = ScreenDev
    THEN [value |-> screen_dei(d, addr), delegated |-> TRUE]
    ELSE [value |-> ByteAt(d, addr), delegated |-> FALSE]

\* the register file emu_deo hands on, store first: uxn->dev[addr] = value
emu_deo_store(d, addr, value) == ByteSet(d, addr, value)

\* a write that delegates to screen_deo before it stores
emu_deo_delegate_first(d, scr, addr, value) ==
    LET stored == emu_deo_store(d, addr, value)
    IN  IF DevOf(addr) = ScreenDev
        THEN [dev |-> stored,
              scr |-> screen_deo(scr, d, PortOf(addr)),
              call |-> [addr |-> addr, value |-> value, delegated |-> TRUE,
                        port |-> PortOf(addr), seen |-> ByteAt(d, addr)]]
        ELSE [dev |-> stored,
              scr |-> scr,
              call |-> [addr |-> addr, value |-> value, delegated |-> FALSE,
                        port |-> PortOf(addr), seen |-> value]]

\* emu_deo: the registers and the screen after the call, and what the call
\* did: whether it delegated to screen_deo, with which port, and the value
\* screen_deo found at the written register when it was invoked
emu_deo(d, scr, addr, value) ==
    LET stored == emu_deo_store(d, addr, value)
    IN  IF DevOf(addr) = ScreenDev
        THEN [dev |-> stored,
              scr |-> screen_deo(scr, stored, PortOf(addr)),
              call |-> [addr |-> addr, value |-> value, delegated |-> TRUE,
                        port |-> PortOf(addr), seen |-> ByteAt(stored, addr)]]
        ELSE [dev |-> stored,
              scr |-> scr,
              call |-> [addr |-> addr, value |-> value, delegated |-> FALSE,
                        port |-> PortOf(addr), seen |-> value]]

(***************************************************************************)
(* The compositor of the render loop.                                      *)
(***************************************************************************)
\* the fallback taken when the low bit of fg is clear, not when fg is 0
PixelOnLowBitFallback(fgv, bgv) ==
    LET on == (fgv % 2 = 1)
    IN  IF fgv % 2 = 0 THEN (bgv % 2 = 1) ELSE on

\* bool on = fg & 1; if (fg == 0) on = bg & 1;
PixelOn(fgv, bgv) ==
    LET on == (fgv % 2 = 1)
    IN  IF fgv = 0 THEN (bgv % 2 = 1) ELSE on

\* the dots the two loops draw: canvas_draw_dot(canvas, x, y) for each on
\* pixel (x, y), 0 <= y < 64, 0 <= x < 128, read at index y * 128 + x.  The
\* pixels a plane does not list are 0 in both planes, so the loops decide
\* all of them as they decide (0, 0); the others are decided one by one.
Listed(scr) ==
    {i \in (DOMAIN scr.fg) \cup (DOMAIN scr.bg) : i < ScreenW * ScreenH}

CompositeDots(scr) ==
    {<<i % ScreenW, i \div ScreenW>> :
        i \in {j \in Listed(scr) : PixelOn(ByteAt(scr.fg, j), ByteAt(scr.bg, j))}}
    \cup
    (IF PixelOn(0, 0)
     THEN {xy \in (0..(ScreenW - 1)) \X (0..(ScreenH - 1)) :
              xy[2] * ScreenW + xy[1] \notin Listed(scr)}
     ELSE {})

(***************************************************************************)
(* The state of a session.                                                 *)
(***************************************************************************)
VARIABLES
    mpc,           \* where uxn_app is
    mutex,         \* state.mutex: the thread that holds it, or "none"
    running,       \* state.running
    redraw,        \* state.redraw
    dev,           \* the 256 device registers state.uxn.dev points at
    devScope,      \* "null": dev not set; "live": inside the block that
                   \* declares the array; "dead": the block has been left
    ram,           \* "null", "alloc", "loaded" or "freed"
    uxn_screen,    \* the screen device: its planes and their allocation
    subscription,  \* input_callback is subscribed to the input events
    timer,         \* "null", "running" or "stopped"
    ipc,           \* where the input service thread is in input_callback
    event,         \* the event input_callback was called with
    held,          \* the keys the input service holds as pressed
    tpc,           \* where the timer service thread is in timer_callback
    vm,            \* the resumption of the interpreter in flight, if any
    canvas,        \* the dots drawn on the canvas since canvas_clear
    frame,         \* the dots of the last canvas_commit
    nTicks,        \* timer ticks delivered so far
    nEvents,       \* input events delivered so far
    ticksPending,  \* ticks handled since the render loop last tested redraw
    poll,          \* what the current iteration of the render loop has done
    ctl,           \* the history of the button register: the keys a press
                   \* has been handled for, whether anything but the mask
                   \* updates of input_callback has stored to it, and the
                   \* last press if it is the last event handled
    arg            \* the operands of the call under study, in the
                   \* specifications that study one call

vars == <<mpc, mutex, running, redraw, dev, devScope, ram, uxn_screen,
          subscription, timer, ipc, event, held, tpc, vm, canvas, frame,
          nTicks, nEvents, ticksPending, poll, ctl, arg>>

NoDeo == [addr |-> 0, value |-> 0, delegated |-> FALSE, port |-> 0, seen |-> 0]
NoVM == [by |-> "none", addr |-> 0, left |-> 0, ran |-> 0, acc |-> 0,
         viaScreen |-> FALSE, call |-> NoDeo]
NoEvent == [key |-> "none", type |-> "none"]
NoPoll == [dirty |-> FALSE, ticks |-> 0, commits |-> 0, cleared |-> FALSE]
NoPress == [key |-> "none", before |-> 0, after |-> 0]
NoCtl == [pressed |-> {}, foreign |-> FALSE, prev |-> NoPress]
NoArg == [addr |-> 0, value |-> 0, x |-> 0, y |-> 0, fg |-> 0, bg |-> 0]

\* state after lines 95-115: the mutex allocated, state.uxn zeroed, both
\* flags false, nothing subscribed
Init ==
    /\ mpc = "browse"
    /\ mutex = "none"
    /\ running = FALSE
    /\ redraw = FALSE
    /\ dev = Zeroed
    /\ devScope = "null"
    /\ ram = "null"
    /\ uxn_screen = [fg |-> Zeroed, bg |-> Zeroed, alloc |-> "null"]
    /\ subscription = FALSE
    /\ timer = "null"
    /\ ipc = "idle"
    /\ event = NoEvent
    /\ held = {}
    /\ tpc = "idle"
    /\ vm = NoVM
    /\ canvas = {}
    /\ frame = {}
    /\ nTicks = 0
    /\ nEvents = 0
    /\ ticksPending = 0
    /\ poll = NoPoll
    /\ ctl = NoCtl
    /\ arg = NoArg

(***************************************************************************)
(* The mutex.  furi_mutex_acquire(mutex, FuriWaitForever) returns once the *)
(* mutex is free and makes the caller its holder.                          *)
(***************************************************************************)
\* an acquire that does not wait for the holder
furi_mutex_acquire_nowait(m, who) == TRUE

furi_mutex_acquire(m, who) == m = "none"

(***************************************************************************)
(* The interpreter, uxn/uxn.c.  uxn_eval(u, pc) returns at once when pc is *)
(* 0; otherwise it runs the program at pc, which reads and writes device   *)
(* ports through emu_dei and emu_deo any number of times and then halts.   *)
(***************************************************************************)
\* the writes and reads the programs of the model make
VMWrites == {<<ScreenVecLo, 1>>, <<CtrlVecLo, 1>>, <<46, 65>>}
VMReads == {CtrlButton}

uxn_eval(who, pc) ==
    [by |-> who, addr |-> pc, ran |-> 0, acc |-> 0, viaScreen |-> FALSE,
     call |-> NoDeo, left |-> IF pc = 0 THEN 0 ELSE MaxVMSteps]

\* one DEO of the running program
vm_deo(addr, value) ==
    /\ vm.by # "none"
    /\ vm.left > 0
    /\ LET r == emu_deo(dev, uxn_screen, addr, value)
       IN  /\ dev' = r.dev
           /\ uxn_screen' = r.scr
           /\ vm' = [vm EXCEPT !.left = @ - 1, !.ran = @ + 1, !.call = r.call]
    /\ ctl' = IF addr = CtrlButton
              THEN [ctl EXCEPT !.foreign = TRUE] ELSE ctl
    /\ UNCHANGED <<mpc, mutex, running, redraw, devScope, ram, subscription,
                   timer, ipc, event, held, tpc, canvas, frame, nTicks,
                   nEvents, ticksPending, poll, arg>>

\* one DEI of the running program
vm_dei(addr) ==
    /\ vm.by # "none"
    /\ vm.left > 0
    /\ LET r == emu_dei(dev, addr)
       IN  vm' = [vm EXCEPT !.left = @ - 1, !.ran = @ + 1,
                            !.acc = r.value, !.viaScreen = r.delegated]
    /\ UNCHANGED <<mpc, mutex, running, redraw, dev, devScope, ram, uxn_screen,
                   subscription, timer, ipc, event, held, tpc, canvas, frame,
                   nTicks, nEvents, ticksPending, poll, arg,
                   ctl>>

\* the program halts and uxn_eval returns to the thread that called it
vm_return ==
    /\ vm.by # "none"
    /\ vm' = NoVM
    /\ CASE vm.by = "main" ->
                mpc' = "subscribe" /\ UNCHANGED <<ipc, tpc, arg,
                   ctl>>
         [] vm.by = "input" ->
                ipc' = "cancel" /\ UNCHANGED <<mpc, tpc, arg,
                   ctl>>
         [] vm.by = "timer" ->
                tpc' = "setredraw" /\ UNCHANGED <<mpc, ipc, arg,
                   ctl>>
    /\ UNCHANGED <<mutex, running, redraw, dev, devScope, ram, uxn_screen,
                   subscription, timer, event, held, canvas, frame, nTicks,
                   nEvents, ticksPending, poll, arg,
                   ctl>>

(***************************************************************************)
(* uxn_app, the application thread.                                        *)
(***************************************************************************)
\* the registers once the array's block has been left: the storage is no
\* longer the array's, and what the compiler keeps there since (the loop
\* variables of the compositor) may have overwritten any byte of it
ClobberAddrs == {CtrlButton}
ClobberVals == {64}
Clobbered(d, scope) ==
    IF scope = "dead"
    THEN {d} \cup {ByteSet(d, a, v) : a \in ClobberAddrs, v \in ClobberVals}
    ELSE {d}

\* the block of lines 119-138 entered at its registrations whatever the
\* file browser returned
uxn_app_browse_unchecked ==
    /\ mpc = "browse"
    /\ \E success \in BOOLEAN : mpc' = IF success THEN "alloc" ELSE "subscribe"
    /\ UNCHANGED <<mutex, running, redraw, dev, devScope, ram, uxn_screen,
                   subscription, timer, ipc, event, held, tpc, vm, canvas,
                   frame, nTicks, nEvents, ticksPending, poll, arg, ctl>>

\* lines 116-119: dialog_file_browser_show, if (success)
uxn_app_browse ==
    /\ mpc = "browse"
    /\ \E success \in BOOLEAN : mpc' = IF success THEN "alloc" ELSE "leave"
    /\ UNCHANGED <<mutex, running, redraw, dev, devScope, ram, uxn_screen,
                   subscription, timer, ipc, event, held, tpc, vm, canvas,
                   frame, nTicks, nEvents, ticksPending, poll, arg,
                   ctl>>

\* lines 120-124: ram, the register array, screen_resize(128, 64)
uxn_app_alloc ==
    /\ mpc = "alloc"
    /\ ram' = "alloc"
    /\ dev' = Zeroed
    /\ devScope' = "live"
    /\ uxn_screen' = [fg |-> Zeroed, bg |-> Zeroed, alloc |-> "live"]
    /\ mpc' = "load"
    /\ UNCHANGED <<mutex, running, redraw, subscription, timer, ipc, event,
                   held, tpc, vm, canvas, frame, nTicks, nEvents,
                   ticksPending, poll, arg,
                   ctl>>

\* the reset vector reached with the program file not read
uxn_app_load_skipped ==
    /\ mpc = "load"
    /\ mpc' = "reset"
    /\ UNCHANGED <<mutex, running, redraw, dev, devScope, ram, uxn_screen,
                   subscription, timer, ipc, event, held, tpc, vm, canvas,
                   frame, nTicks, nEvents, ticksPending, poll, arg, ctl>>

\* lines 126-130: the program file read to ram + 0x100
uxn_app_load ==
    /\ mpc = "load"
    /\ ram' = "loaded"
    /\ mpc' = "reset"
    /\ UNCHANGED <<mutex, running, redraw, dev, devScope, uxn_screen,
                   subscription, timer, ipc, event, held, tpc, vm, canvas,
                   frame, nTicks, nEvents, ticksPending, poll, arg,
                   ctl>>

\* line 132: uxn_eval(&state.uxn, 0x100)
uxn_app_reset ==
    /\ mpc = "reset"
    /\ vm' = uxn_eval("main", ResetVector)
    /\ mpc' = "eval"
    /\ UNCHANGED <<mutex, running, redraw, dev, devScope, ram, uxn_screen,
                   subscription, timer, ipc, event, held, tpc, canvas, frame,
                   nTicks, nEvents, ticksPending, poll, arg,
                   ctl>>

\* line 134: furi_pubsub_subscribe
uxn_app_subscribe ==
    /\ mpc = "subscribe"
    /\ subscription' = TRUE
    /\ mpc' = "timer"
    /\ UNCHANGED <<mutex, running, redraw, dev, devScope, ram, uxn_screen,
                   timer, ipc, event, held, tpc, vm, canvas, frame, nTicks,
                   nEvents, ticksPending, poll, arg,
                   ctl>>

\* lines 135-136: furi_timer_alloc, furi_timer_start
uxn_app_timer ==
    /\ mpc = "timer"
    /\ timer' = "running"
    /\ mpc' = "run"
    /\ UNCHANGED <<mutex, running, redraw, dev, devScope, ram, uxn_screen,
                   subscription, ipc, event, held, tpc, vm, canvas, frame,
                   nTicks, nEvents, ticksPending, poll, arg,
                   ctl>>

\* line 137: state.running = true
uxn_app_run ==
    /\ mpc = "run"
    /\ running' = TRUE
    /\ mpc' = "leave"
    /\ UNCHANGED <<mutex, redraw, dev, devScope, ram, uxn_screen,
                   subscription, timer, ipc, event, held, tpc, vm, canvas,
                   frame, nTicks, nEvents, ticksPending, poll, arg,
                   ctl>>

\* lines 138-142: the block of the register array ends; the canvas is acquired
uxn_app_leave ==
    /\ mpc = "leave"
    /\ devScope' = IF devScope = "live" THEN "dead" ELSE devScope
    /\ mpc' = "loop"
    /\ UNCHANGED <<mutex, running, redraw, dev, ram, uxn_screen,
                   subscription, timer, ipc, event, held, tpc, vm, canvas,
                   frame, nTicks, nEvents, ticksPending, poll, arg,
                   ctl>>

\* line 143: while (state.running)
uxn_app_loop ==
    /\ mpc = "loop"
    /\ mpc' = IF running THEN "lock" ELSE "free"
    /\ UNCHANGED <<mutex, running, redraw, dev, devScope, ram, uxn_screen,
                   subscription, timer, ipc, event, held, tpc, vm, canvas,
                   frame, nTicks, nEvents, ticksPending, poll, arg,
                   ctl>>

\* the render loop entering its body without waiting for the mutex
uxn_app_lock_skipped ==
    /\ mpc = "lock"
    /\ mutex' = "main"
    /\ mpc' = "test"
    /\ UNCHANGED <<running, redraw, dev, devScope, ram, uxn_screen,
                   subscription, timer, ipc, event, held, tpc, vm, canvas,
                   frame, nTicks, nEvents, ticksPending, poll, arg, ctl>>

\* line 144: furi_mutex_acquire
uxn_app_lock ==
    /\ mpc = "lock"
    /\ furi_mutex_acquire(mutex, "main")
    /\ mutex' = "main"
    /\ mpc' = "test"
    /\ UNCHANGED <<running, redraw, dev, devScope, ram, uxn_screen,
                   subscription, timer, ipc, event, held, tpc, vm, canvas,
                   frame, nTicks, nEvents, ticksPending, poll, arg,
                   ctl>>

\* line 146: if (state.redraw)
uxn_app_test ==
    /\ mpc = "test"
    /\ mpc' = IF redraw THEN "clear" ELSE "unlock"
    /\ poll' = [NoPoll EXCEPT !.dirty = redraw, !.ticks = ticksPending]
    /\ ticksPending' = 0
    /\ UNCHANGED <<mutex, running, redraw, dev, devScope, ram, uxn_screen,
                   subscription, timer, ipc, event, held, tpc, vm, canvas,
                   frame, nTicks, nEvents, arg,
                   ctl>>

\* line 147: canvas_clear
uxn_app_clear ==
    /\ mpc = "clear"
    /\ canvas' = {}
    /\ mpc' = "composite"
    /\ UNCHANGED <<mutex, running, redraw, dev, devScope, ram, uxn_screen,
                   subscription, timer, ipc, event, held, tpc, vm, frame,
                   nTicks, nEvents, ticksPending, poll, arg,
                   ctl>>

\* lines 148-156: the two loops over the planes
uxn_app_composite ==
    /\ mpc = "composite"
    /\ canvas' = canvas \cup CompositeDots(uxn_screen)
    /\ dev' \in Clobbered(dev, devScope)
    /\ ctl' = IF ByteAt(dev', CtrlButton) # ByteAt(dev, CtrlButton)
              THEN [ctl EXCEPT !.foreign = TRUE] ELSE ctl
    /\ mpc' = "commit"
    /\ UNCHANGED <<mutex, running, redraw, devScope, ram, uxn_screen,
                   subscription, timer, ipc, event, held, tpc, vm, frame,
                   nTicks, nEvents, ticksPending, poll, arg>>

\* line 157: canvas_commit
uxn_app_commit ==
    /\ mpc = "commit"
    /\ frame' = canvas
    /\ poll' = [poll EXCEPT !.commits = @ + 1]
    /\ mpc' = "clearflag"
    /\ UNCHANGED <<mutex, running, redraw, dev, devScope, ram, uxn_screen,
                   subscription, timer, ipc, event, held, tpc, vm, canvas,
                   nTicks, nEvents, ticksPending, arg,
                   ctl>>

\* the render loop leaving the flag set after the commit
uxn_app_clearflag_missing ==
    /\ mpc = "clearflag"
    /\ mpc' = "unlock"
    /\ UNCHANGED <<mutex, running, redraw, dev, devScope, ram, uxn_screen,
                   subscription, timer, ipc, event, held, tpc, vm, canvas,
                   frame, nTicks, nEvents, ticksPending, poll, arg, ctl>>

\* line 158: state.redraw = false
uxn_app_clearflag ==
    /\ mpc = "clearflag"
    /\ redraw' = FALSE
    /\ poll' = [poll EXCEPT !.cleared = TRUE]
    /\ mpc' = "unlock"
    /\ UNCHANGED <<mutex, running, dev, devScope, ram, uxn_screen,
                   subscription, timer, ipc, event, held, tpc, vm, canvas,
                   frame, nTicks, nEvents, ticksPending, arg,
                   ctl>>

\* line 161: furi_mutex_release
uxn_app_unlock ==
    /\ mpc = "unlock"
    /\ mutex' = "none"
    /\ poll' = NoPoll
    /\ mpc' = "delay"
    /\ UNCHANGED <<running, redraw, dev, devScope, ram, uxn_screen,
                   subscription, timer, ipc, event, held, tpc, vm, canvas,
                   frame, nTicks, nEvents, ticksPending, arg,
                   ctl>>

\* line 163: furi_delay_tick(2)
uxn_app_delay ==
    /\ mpc = "delay"
    /\ mpc' = "loop"
    /\ UNCHANGED <<mutex, running, redraw, dev, devScope, ram, uxn_screen,
                   subscription, timer, ipc, event, held, tpc, vm, canvas,
                   frame, nTicks, nEvents, ticksPending, poll, arg,
                   ctl>>

\* lines 166-168: free(ram), free(uxn_screen.fg), free(uxn_screen.bg)
uxn_app_free ==
    /\ mpc = "free"
    /\ ram' = IF ram = "null" THEN ram ELSE "freed"
    /\ uxn_screen' = IF uxn_screen.alloc = "null" THEN uxn_screen
                     ELSE [uxn_screen EXCEPT !.alloc = "freed"]
    /\ mpc' = "timer_stop"
    /\ UNCHANGED <<mutex, running, redraw, dev, devScope, subscription,
                   timer, ipc, event, held, tpc, vm, canvas, frame, nTicks,
                   nEvents, ticksPending, poll, arg,
                   ctl>>

\* lines 172-175: furi_timer_stop, furi_timer_free
uxn_app_timer_stop ==
    /\ mpc = "timer_stop"
    /\ timer' = IF timer = "null" THEN timer ELSE "stopped"
    /\ mpc' = "unsubscribe"
    /\ UNCHANGED <<mutex, running, redraw, dev, devScope, ram, uxn_screen,
                   subscription, ipc, event, held, tpc, vm, canvas, frame,
                   nTicks, nEvents, ticksPending, poll, arg,
                   ctl>>

\* lines 176-178: furi_pubsub_unsubscribe, which waits for a publication in
\* progress (the pubsub calls its subscribers under its own lock)
uxn_app_unsubscribe ==
    /\ mpc = "unsubscribe"
    /\ subscription => ipc = "idle"
    /\ subscription' = FALSE
    /\ mpc' = "close"
    /\ UNCHANGED <<mutex, running, redraw, dev, devScope, ram, uxn_screen,
                   timer, ipc, event, held, tpc, vm, canvas, frame, nTicks,
                   nEvents, ticksPending, poll, arg,
                   ctl>>

\* lines 179-187: the records closed, the mutex freed
uxn_app_close ==
    /\ mpc = "close"
    /\ mpc' = "done"
    /\ UNCHANGED <<mutex, running, redraw, dev, devScope, ram, uxn_screen,
                   subscription, timer, ipc, event, held, tpc, vm, canvas,
                   frame, nTicks, nEvents, ticksPending, poll, arg,
                   ctl>>

(***************************************************************************)
(* timer_callback, on the timer service thread.                            *)
(***************************************************************************)
\* the periodic timer expires and the service calls timer_callback
timer_fire ==
    /\ timer = "running"
    /\ tpc = "idle"
    /\ nTicks < MaxTicks
    /\ nTicks' = nTicks + 1
    /\ tpc' = "acquire"
    /\ UNCHANGED <<mpc, mutex, running, redraw, dev, devScope, ram,
                   uxn_screen, subscription, timer, ipc, event, held, vm,
                   canvas, frame, nEvents, ticksPending, poll, arg,
                   ctl>>

\* line 63
timer_callback_acquire ==
    /\ tpc = "acquire"
    /\ furi_mutex_acquire(mutex, "timer")
    /\ mutex' = "timer"
    /\ tpc' = "vector"
    /\ UNCHANGED <<mpc, running, redraw, dev, devScope, ram, uxn_screen,
                   subscription, timer, ipc, event, held, vm, canvas, frame,
                   nTicks, nEvents, ticksPending, poll, arg,
                   ctl>>

\* the handler setting the flag when it calls uxn_eval, not after it
timer_callback_eval_flag_first ==
    /\ tpc = "vector"
    /\ vm' = uxn_eval("timer", Vector(ByteAt(dev, ScreenVecHi), ByteAt(dev, ScreenVecLo)))
    /\ redraw' = TRUE
    /\ tpc' = "eval"
    /\ UNCHANGED <<mpc, mutex, running, dev, devScope, ram, uxn_screen,
                   subscription, timer, ipc, event, held, canvas, frame,
                   nTicks, nEvents, ticksPending, poll, arg, ctl>>

\* lines 64-65: the screen vector read, uxn_eval called with it
timer_callback_eval ==
    /\ tpc = "vector"
    /\ vm' = uxn_eval("timer", Vector(ByteAt(dev, ScreenVecHi), ByteAt(dev, ScreenVecLo)))
    /\ tpc' = "eval"
    /\ UNCHANGED <<mpc, mutex, running, redraw, dev, devScope, ram,
                   uxn_screen, subscription, timer, ipc, event, held, canvas,
                   frame, nTicks, nEvents, ticksPending, poll, arg,
                   ctl>>

\* line 66: state->redraw = true
timer_callback_redraw ==
    /\ tpc = "setredraw"
    /\ redraw' = TRUE
    /\ ticksPending' = ticksPending + 1
    /\ tpc' = "release"
    /\ UNCHANGED <<mpc, mutex, running, dev, devScope, ram, uxn_screen,
                   subscription, timer, ipc, event, held, vm, canvas, frame,
                   nTicks, nEvents, poll, arg,
                   ctl>>

\* line 67
timer_callback_release ==
    /\ tpc = "release"
    /\ mutex' = "none"
    /\ tpc' = "idle"
    /\ UNCHANGED <<mpc, running, redraw, dev, devScope, ram, uxn_screen,
                   subscription, timer, ipc, event, held, vm, canvas, frame,
                   nTicks, nEvents, ticksPending, poll, arg,
                   ctl>>

(***************************************************************************)
(* input_callback, on the input service thread.                            *)
(***************************************************************************)
\* the events the input service publishes: a key is pressed, then held
\* (long, repeat), then released; a short follows the release
Deliverable(key, type) ==
    CASE type = "Press" -> key \notin held
      [] type = "Short" -> key \notin held
      [] OTHER -> key \in held

input_event(key, type) ==
    /\ subscription
    /\ ipc = "idle"
    /\ nEvents < MaxEvents
    /\ Deliverable(key, type)
    /\ held' = CASE type = "Press" -> held \cup {key}
                 [] type = "Release" -> held \ {key}
                 [] OTHER -> held
    /\ event' = [key |-> key, type |-> type]
    /\ nEvents' = nEvents + 1
    /\ ipc' = "acquire"
    /\ UNCHANGED <<mpc, mutex, running, redraw, dev, devScope, ram,
                   uxn_screen, subscription, timer, tpc, vm, canvas, frame,
                   nTicks, ticksPending, poll, arg,
                   ctl>>

\* line 45
input_callback_acquire ==
    /\ ipc = "acquire"
    /\ furi_mutex_acquire(mutex, "input")
    /\ mutex' = "input"
    /\ ipc' = "handle"
    /\ UNCHANGED <<mpc, running, redraw, dev, devScope, ram, uxn_screen,
                   subscription, timer, event, held, tpc, vm, canvas, frame,
                   nTicks, nEvents, ticksPending, poll, arg,
                   ctl>>

\* a press whose resumption starts before the button register is updated
input_callback_press_eval_first ==
    /\ ipc = "handle"
    /\ event.type = "Press"
    /\ vm' = uxn_eval("input", Vector(ByteAt(dev, CtrlVecHi), ByteAt(dev, CtrlVecLo)))
    /\ ctl' = [ctl EXCEPT !.pressed = @ \cup {event.key}]
    /\ ipc' = "eval"
    /\ UNCHANGED <<mpc, mutex, running, redraw, dev, devScope, ram,
                   uxn_screen, subscription, timer, event, held, tpc, canvas,
                   frame, nTicks, nEvents, ticksPending, poll, arg>>

\* lines 47-50: a press
input_callback_press ==
    /\ ipc = "handle"
    /\ event.type = "Press"
    /\ dev' = ByteSet(dev, CtrlButton, MaskPress(ByteAt(dev, CtrlButton), event.key))
    /\ vm' = uxn_eval("input", Vector(ByteAt(dev, CtrlVecHi), ByteAt(dev, CtrlVecLo)))
    /\ ctl' = [ctl EXCEPT !.pressed = @ \cup {event.key},
                          !.prev = [key |-> event.key,
                                    before |-> ByteAt(dev, CtrlButton),
                                    after |-> ByteAt(dev', CtrlButton)]]
    /\ ipc' = "eval"
    /\ UNCHANGED <<mpc, mutex, running, redraw, devScope, ram, uxn_screen,
                   subscription, timer, event, held, tpc, canvas, frame,
                   nTicks, nEvents, ticksPending, poll, arg>>

\* lines 47, 51-53: a release
input_callback_release_key ==
    /\ ipc = "handle"
    /\ event.type = "Release"
    /\ dev' = ByteSet(dev, CtrlButton,
                      MaskRelease(ByteAt(dev, CtrlButton), event.key))
    /\ vm' = uxn_eval("input", Vector(ByteAt(dev, CtrlVecHi), ByteAt(dev, CtrlVecLo)))
    /\ ctl' = [ctl EXCEPT !.prev = NoPress]
    /\ ipc' = "eval"
    /\ UNCHANGED <<mpc, mutex, running, redraw, devScope, ram, uxn_screen,
                   subscription, timer, event, held, tpc, canvas, frame,
                   nTicks, nEvents, ticksPending, poll, arg>>

\* lines 48-54: any other type takes neither branch
input_callback_other ==
    /\ ipc = "handle"
    /\ event.type \notin {"Press", "Release"}
    /\ ctl' = [ctl EXCEPT !.prev = NoPress]
    /\ ipc' = "cancel"
    /\ UNCHANGED <<mpc, mutex, running, redraw, dev, devScope, ram,
                   uxn_screen, subscription, timer, event, held, tpc, vm,
                   canvas, frame, nTicks, nEvents, ticksPending, poll,
                   arg>>

\* the test of line 56 without its test of the event type
input_callback_cancel_anytype ==
    /\ ipc = "cancel"
    /\ running' = IF event.key = "Back" THEN FALSE ELSE running
    /\ ipc' = "release"
    /\ UNCHANGED <<mpc, mutex, redraw, dev, devScope, ram, uxn_screen,
                   subscription, timer, event, held, tpc, vm, canvas, frame,
                   nTicks, nEvents, ticksPending, poll, arg, ctl>>

\* line 56: a long press of Back ends the session
input_callback_cancel ==
    /\ ipc = "cancel"
    /\ running' = IF event.key = "Back" /\ event.type = "Long"
                  THEN FALSE ELSE running
    /\ ipc' = "release"
    /\ UNCHANGED <<mpc, mutex, redraw, dev, devScope, ram, uxn_screen,
                   subscription, timer, event, held, tpc, vm, canvas, frame,
                   nTicks, nEvents, ticksPending, poll, arg,
                   ctl>>

\* line 58
input_callback_release ==
    /\ ipc = "release"
    /\ mutex' = "none"
    /\ ipc' = "idle"
    /\ event' = NoEvent
    /\ UNCHANGED <<mpc, running, redraw, dev, devScope, ram, uxn_screen,
                   subscription, timer, held, tpc, vm, canvas, frame, nTicks,
                   nEvents, ticksPending, poll, arg,
                   ctl>>

(***************************************************************************)
(* The session.                                                            *)
(***************************************************************************)
\* the keys whose events the session of Spec receives
SessionKeys == {"Back", "Ok"}

AppStep ==
    \/ uxn_app_browse \/ uxn_app_alloc \/ uxn_app_load \/ uxn_app_reset
    \/ uxn_app_subscribe \/ uxn_app_timer \/ uxn_app_run \/ uxn_app_leave
    \/ uxn_app_loop \/ uxn_app_lock \/ uxn_app_test \/ uxn_app_clear
    \/ uxn_app_composite \/ uxn_app_commit \/ uxn_app_clearflag
    \/ uxn_app_unlock \/ uxn_app_delay \/ uxn_app_free
    \/ uxn_app_timer_stop \/ uxn_app_unsubscribe \/ uxn_app_close

TimerStep ==
    \/ timer_fire \/ timer_callback_acquire \/ timer_callback_eval
    \/ timer_callback_redraw \/ timer_callback_release

InputStep ==
    \/ \E key \in SessionKeys, type \in Types : input_event(key, type)
    \/ input_callback_acquire \/ input_callback_press
    \/ input_callback_release_key \/ input_callback_other
    \/ input_callback_cancel \/ input_callback_release

VMStep ==
    \/ \E w \in VMWrites : vm_deo(w[1], w[2])
    \/ vm_return

Next == AppStep \/ TimerStep \/ InputStep \/ VMStep

Spec == Init /\ [][Next]_vars

(***************************************************************************)
(* The input handler on its own: the session has started (uxn_app is at    *)
(* the top of its loop, the reset program has run and may have installed a *)
(* controller vector), and the input service delivers events of all six    *)
(* keys and all five types while the other two threads do not run.  The    *)
(* controller program may read the button register and store to it.        *)
(***************************************************************************)
Started(d) ==
    /\ mpc = "loop"
    /\ mutex = "none"
    /\ running = TRUE
    /\ redraw = FALSE
    /\ dev = d
    /\ devScope = "dead"
    /\ ram = "loaded"
    /\ uxn_screen = [fg |-> Zeroed, bg |-> Zeroed, alloc |-> "live"]
    /\ subscription = TRUE
    /\ timer = "running"
    /\ ipc = "idle"
    /\ event = NoEvent
    /\ held = {}
    /\ tpc = "idle"
    /\ vm = NoVM
    /\ canvas = {}
    /\ frame = {}
    /\ nTicks = 0
    /\ nEvents = 0
    /\ ticksPending = 0
    /\ poll = NoPoll
    /\ ctl = NoCtl
    /\ arg = NoArg

InitInput == \E d \in {Zeroed, ByteSet(Zeroed, CtrlVecLo, 1)} : Started(d)

InputVMWrites == {<<CtrlButton, 3>>, <<CtrlVecLo, 0>>}

NextInput ==
    \/ \E key \in Keys, type \in Types : input_event(key, type)
    \/ input_callback_acquire \/ input_callback_press
    \/ input_callback_release_key \/ input_callback_other
    \/ input_callback_cancel \/ input_callback_release
    \/ \E w \in InputVMWrites : vm_deo(w[1], w[2])
    \/ \E a \in VMReads : vm_dei(a)
    \/ vm_return

SpecInput == InitInput /\ [][NextInput]_vars

(***************************************************************************)
(* The router on its own: the timer handler has just called uxn_eval, and  *)
(* the program it resumed writes the byte arg.value to the port arg.addr   *)
(* (DEO), reads the same port back (DEI) and halts.  The port and the byte *)
(* range over all 256 x 256 pairs.  The register file is one that earlier  *)
(* programs have written: every port of the system, console, screen and    *)
(* controller devices holds a nonzero byte, except the x and y registers   *)
(* of the screen (0x28..0x2b), which are 0 like the ports of every other   *)
(* device.                                                                 *)
(***************************************************************************)
BusyPorts == ((0..47) \cup (128..143)) \ (40..43)
BusyDev == [a \in BusyPorts |-> 255 - a]

InitRouter ==
    /\ mpc = "delay"
    /\ mutex = "timer"
    /\ running = TRUE
    /\ redraw = FALSE
    /\ dev = BusyDev
    /\ devScope = "dead"
    /\ ram = "loaded"
    /\ uxn_screen = [fg |-> Zeroed, bg |-> Zeroed, alloc |-> "live"]
    /\ subscription = TRUE
    /\ timer = "running"
    /\ ipc = "idle"
    /\ event = NoEvent
    /\ held = {}
    /\ tpc = "eval"
    /\ vm = uxn_eval("timer", Vector(ByteAt(dev, ScreenVecHi),
                                     ByteAt(dev, ScreenVecLo)))
    /\ canvas = {}
    /\ frame = {}
    /\ nTicks = 1
    /\ nEvents = 0
    /\ ticksPending = 0
    /\ poll = NoPoll
    /\ ctl = NoCtl
    /\ \E a \in Byte, v \in Byte : arg = [NoArg EXCEPT !.addr = a, !.value = v]

NextRouter ==
    \/ vm.ran = 0 /\ vm_deo(arg.addr, arg.value)
    \/ vm.ran = 1 /\ vm_dei(arg.addr)
    \/ vm.ran = 2 /\ vm_return

SpecRouter == InitRouter /\ [][NextRouter]_vars

(***************************************************************************)
(* The compositor on its own: the render loop has found the flag set and   *)
(* cleared the canvas, and the planes hold the bytes arg.fg and arg.bg at  *)
(* the pixel (arg.x, arg.y) and 0 elsewhere.  The two bytes range over all *)
(* 256 x 256 pairs (the planes are uint8_t arrays the screen device owns), *)
(* the pixel over the first and the last of the display.                   *)
(***************************************************************************)
CompPixels == {<<0, 0>>, <<ScreenW - 1, ScreenH - 1>>}

InitComp ==
    /\ mpc = "composite"
    /\ mutex = "main"
    /\ running = TRUE
    /\ redraw = TRUE
    /\ dev = Zeroed
    /\ devScope = "dead"
    /\ ram = "loaded"
    /\ \E xy \in CompPixels, f \in Byte, b \in Byte :
          /\ arg = [NoArg EXCEPT !.x = xy[1], !.y = xy[2], !.fg = f, !.bg = b]
          /\ uxn_screen =
                [fg |-> ByteSet(Zeroed, xy[2] * ScreenW + xy[1], f),
                 bg |-> ByteSet(Zeroed, xy[2] * ScreenW + xy[1], b),
                 alloc |-> "live"]
    /\ subscription = TRUE
    /\ timer = "running"
    /\ ipc = "idle"
    /\ event = NoEvent
    /\ held = {}
    /\ tpc = "idle"
    /\ vm = NoVM
    /\ canvas = {}
    /\ frame = {}
    /\ nTicks = 1
    /\ nEvents = 0
    /\ ticksPending = 0
    /\ poll = [NoPoll EXCEPT !.dirty = TRUE, !.ticks = 1]
    /\ ctl = NoCtl

NextComp == uxn_app_composite \/ uxn_app_commit

SpecComp == InitComp /\ [][NextComp]_vars

(***************************************************************************)
(* Where each thread is between its furi_mutex_acquire and its             *)
(* furi_mutex_release.                                                     *)
(***************************************************************************)
Actors == {"main", "input", "timer"}

Holding(a) ==
    CASE a = "main" ->
            mpc \in {"test", "clear", "composite", "commit", "clearflag", "unlock"}
      [] a = "input" -> ipc \in {"handle", "eval", "cancel", "release"}
      [] a = "timer" -> tpc \in {"vector", "eval", "setredraw", "release"}

\* the render loop is between canvas_clear and the clearing of the flag
Rendering == mpc \in {"clear", "composite", "commit", "clearflag"}

\* the handlers that are inside a call of uxn_eval
Resuming == {a \in {"input", "timer"} :
                (a = "input" /\ ipc = "eval") \/ (a = "timer" /\ tpc = "eval")}

(***************************************************************************)
(* C1.  Mutual exclusion: in every reachable state at most one of          *)
(* input_callback, timer_callback and the body of the render loop is       *)
(* between its furi_mutex_acquire and its furi_mutex_release, the mutex    *)
(* names that one as its holder, and at most one handler is inside         *)
(* uxn_eval.                                                               *)
(***************************************************************************)
C1_MutualExclusion ==
    /\ Cardinality({a \in Actors : Holding(a)}) <= 1
    /\ \A a \in Actors : Holding(a) => mutex = a
    /\ Cardinality(Resuming) <= 1

\* the timer handler is in the middle of a resumption it started while the
\* input handler and the render loop both wait for the mutex
C1_Witness ==
    /\ tpc = "eval" /\ vm.by = "timer" /\ vm.ran > 0
    /\ ipc = "acquire"
    /\ mpc = "lock"

(***************************************************************************)
(* C2.  Render atomicity: while the render loop is between canvas_clear    *)
(* and the clearing of the flag, no handler holds the mutex and no         *)
(* resumption is in flight, and no step taken in that interval starts or   *)
(* advances a resumption, writes a colour plane, or moves a handler past   *)
(* its furi_mutex_acquire.                                                 *)
(***************************************************************************)
C2_RenderAtomic ==
    /\ [](Rendering =>
            /\ vm = NoVM
            /\ ~Holding("input")
            /\ ~Holding("timer"))
    /\ [][Rendering =>
            /\ vm' = NoVM
            /\ uxn_screen' = uxn_screen
            /\ ~Holding("input")'
            /\ ~Holding("timer")']_vars

\* the render loop composites a plane a resumption has drawn on, while a
\* timer tick and an input event both wait for the mutex
C2_Witness ==
    /\ mpc = "composite"
    /\ uxn_screen.fg # Zeroed
    /\ tpc = "acquire"
    /\ ipc = "acquire"

(***************************************************************************)
(* C3.  As claimed: a handler never calls uxn_eval with address 0.         *)
(***************************************************************************)
C3_ZeroVectorSkipped ==
    vm.by \in {"input", "timer"} => vm.addr # 0

(***************************************************************************)
(* C3, amended.  Both handlers call uxn_eval unconditionally with the      *)
(* address hi * 256 + lo of their vector registers (0x20/0x21 for the      *)
(* timer, 0x80/0x81 for the input handler); the address is 0 exactly when  *)
(* both bytes are 0, and it is the interpreter that then runs nothing.     *)
(***************************************************************************)
C3_VectorPassedOn ==
    /\ (tpc = "eval" /\ vm.ran = 0) =>
          /\ vm.by = "timer"
          /\ vm.addr = ByteAt(dev, ScreenVecHi) * 256 + ByteAt(dev, ScreenVecLo)
    /\ (ipc = "eval" /\ vm.ran = 0) =>
          /\ vm.by = "input"
          /\ vm.addr = ByteAt(dev, CtrlVecHi) * 256 + ByteAt(dev, CtrlVecLo)
    /\ (vm.by # "none" /\ vm.addr = 0) => (vm.left = 0 /\ vm.ran = 0)

\* the timer handler has called uxn_eval with address 0, both bytes of the
\* screen vector being 0
C3_Witness ==
    /\ tpc = "eval" /\ vm.by = "timer" /\ vm.addr = 0
    /\ ByteAt(dev, ScreenVecHi) = 0 /\ ByteAt(dev, ScreenVecLo) = 0

(***************************************************************************)
(* C4.  Dirty-flag coalescing: an iteration of the render loop that comes  *)
(* after n >= 1 handled timer ticks commits exactly one frame and leaves   *)
(* the flag false; an iteration commits once if it found the flag set and  *)
(* never otherwise; and only the render loop's own step (line 158) ever    *)
(* takes the flag from true to false.                                      *)
(***************************************************************************)
C4_Coalescing ==
    /\ [](mpc = "unlock" =>
            /\ ~redraw
            /\ poll.ticks >= 1 => (poll.dirty /\ poll.commits = 1)
            /\ poll.commits = (IF poll.dirty THEN 1 ELSE 0))
    /\ [](poll.commits <= 1)
    /\ [][(redraw /\ ~redraw') =>
            (mpc = "clearflag" /\ mpc' = "unlock" /\ mutex = "main")]_vars

\* an iteration that followed two timer ticks has committed one frame
C4_Witness ==
    /\ mpc = "unlock"
    /\ poll.ticks = 2
    /\ poll.commits = 1
    /\ ~redraw

(***************************************************************************)
(* The steps of input_callback that update the button register.            *)
(***************************************************************************)
Mask == ByteAt(dev, CtrlButton)

PressStep == ipc = "handle" /\ event.type = "Press" /\ ipc' = "eval"
ReleaseStep == ipc = "handle" /\ event.type = "Release" /\ ipc' = "eval"

\* the release being handled is of the key whose press was the event
\* handled just before it
ReleaseAfterPress == ReleaseStep /\ ctl.prev.key = event.key

HasBit(m, key) == (m \div button_bit(key)) % 2 = 1

KeyBitsDistinct ==
    /\ {button_bit(k) : k \in Keys} = {1, 2, 16, 32, 64, 128}
    /\ \A j, k \in Keys : button_bit(j) = button_bit(k) => j = k

OnlyOwnBitChanges ==
    (PressStep \/ ReleaseStep) =>
        \A i \in 0..7 :
            2 ^ i # button_bit(event.key) =>
                Bit(ByteAt(dev', CtrlButton), i) = Bit(Mask, i)

C8_Isolation ==
    /\ [](KeyBitsDistinct)
    /\ [](\A k \in Keys \ ctl.pressed : ~HasBit(Mask, k))
    /\ [][OnlyOwnBitChanges]_vars

(***************************************************************************)
(* C8, amended.  The six keys own six distinct single bits (0x01, 0x02,    *)
(* 0x10, 0x20, 0x40, 0x80); the update input_callback makes on a press or  *)
(* release of K changes no bit but K's; and the bit of a key no press has  *)
(* been handled for is 0 as long as nothing but those updates has stored   *)
(* to the button register (a resumed program may store any byte to it).    *)
(***************************************************************************)
C8_IsolationOfUpdates ==
    /\ [](KeyBitsDistinct)
    /\ [](~ctl.foreign => \A k \in Keys \ ctl.pressed : ~HasBit(Mask, k))
    /\ [][OnlyOwnBitChanges]_vars

\* Ok and Up have been pressed, nothing else has written the register, and
\* it holds exactly their two bits
C8_Witness ==
    /\ ctl.pressed = {"Ok", "Up"}
    /\ ~ctl.foreign
    /\ Mask = 17
    /\ ipc = "eval"

(***************************************************************************)
(* C9.  Long-press cancel: while input_callback handles a long press of    *)
(* Back no device register changes and no resumption starts, and line 56   *)
(* of the handler leaves running false; no step but line 56 handling that  *)
(* event ever takes running from true to false.                            *)
(***************************************************************************)
BackLong == [key |-> "Back", type |-> "Long"]

C9_LongPressCancel ==
    /\ [][(running /\ ~running') => (ipc = "cancel" /\ event = BackLong)]_vars
    /\ [][(Holding("input") /\ event = BackLong) =>
            (dev' = dev /\ vm = NoVM /\ vm' = NoVM)]_vars
    /\ [][(ipc = "cancel" /\ ipc' = "release" /\ event = BackLong) =>
            ~running']_vars

\* the long press of Back has been handled: running is false, the button
\* register still holds Back's bit from the press
C9_Witness ==
    /\ ipc = "release" /\ event = BackLong
    /\ ~running
    /\ Mask = 2

(***************************************************************************)
(* C5.  Router round trip: for every address A whose high nibble is not    *)
(* the screen device and every byte v, emu_deo(A, v) followed at once by   *)
(* emu_dei(A) returns v, and neither call goes to the screen device (the   *)
(* planes are untouched).                                                  *)
(***************************************************************************)
C5_RouterRoundTrip ==
    (vm.by = "timer" /\ vm.ran = 2 /\ DevOf(arg.addr) # ScreenDev) =>
        /\ vm.acc = arg.value
        /\ ~vm.viaScreen
        /\ ~vm.call.delegated
        /\ uxn_screen.fg = Zeroed /\ uxn_screen.bg = Zeroed

\* 0xff written to the button port 0x82 of the busy register file, which
\* held 0x7d there, and read back
C5_Witness ==
    /\ vm.by = "timer" /\ vm.ran = 2
    /\ arg.addr = 130 /\ arg.value = 255
    /\ vm.acc = 255
    /\ ByteAt(dev, 129) = 126

(***************************************************************************)
(* C6.  Store-before-delegate: emu_deo(addr, value) delegates to the       *)
(* screen device exactly for addr in 0x20..0x2f, the device then finds     *)
(* value already at dev[addr], and the registers after the call are the    *)
(* registers before it with dev[addr] = value and no other entry changed.  *)
(***************************************************************************)
DeoStep == vm.by # "none" /\ vm.ran = 0 /\ vm'.ran = 1

C6_StoreBeforeDelegate ==
    /\ []((vm.by = "timer" /\ vm.ran >= 1) =>
            /\ vm.call.addr = arg.addr /\ vm.call.value = arg.value
            /\ vm.call.delegated <=> (32 <= arg.addr /\ arg.addr <= 47)
            /\ vm.call.delegated =>
                  (vm.call.seen = arg.value /\ vm.call.port = arg.addr - 32)
            /\ ByteAt(dev, arg.addr) = arg.value)
    /\ [][DeoStep =>
            \A a \in Byte :
                ByteAt(dev', a) = IF a = arg.addr THEN arg.value
                                  ELSE ByteAt(dev, a)]_vars

\* a write of 0x41 to the pixel port 0x2e: the screen device found 0x41 in
\* the register and drew colour 1 at (0, 0) of the foreground plane
C6_Witness ==
    /\ vm.by = "timer" /\ vm.ran = 1
    /\ arg.addr = 46 /\ arg.value = 65
    /\ vm.call.delegated /\ vm.call.seen = 65
    /\ ByteAt(uxn_screen.fg, 0) = 1

(***************************************************************************)
(* C10.  Compositor rule: the pixel (x, y), read at index y * 128 + x, is  *)
(* drawn exactly when (fg = 0 and bg is odd) or (fg # 0 and fg is odd),    *)
(* for all bytes fg and bg; (0,0) is off, (0,1) on, (1,0) on, (2,1) off    *)
(* and (3,0) on; the compositor writes neither plane.                      *)
(***************************************************************************)
RuleOn(f, b) == (f = 0 /\ b % 2 = 1) \/ (f # 0 /\ f % 2 = 1)

C10_CompositorRule ==
    /\ [](mpc = "commit" =>
            canvas = IF RuleOn(arg.fg, arg.bg)
                     THEN {<<arg.x, arg.y>>} ELSE {})
    /\ [](/\ ~PixelOn(0, 0) /\ PixelOn(0, 1) /\ PixelOn(1, 0)
          /\ ~PixelOn(2, 1) /\ PixelOn(3, 0))
    /\ [][mpc = "composite" => uxn_screen' = uxn_screen]_vars

\* the last pixel of the display with fg = 0 and bg = 1: drawn, from the
\* background
C10_Witness ==
    /\ mpc = "commit"
    /\ arg.x = 127 /\ arg.y = 63 /\ arg.fg = 0 /\ arg.bg = 1
    /\ canvas = {<<127, 63>>}
    /\ ByteAt(uxn_screen.bg, 8191) = 1

(***************************************************************************)
(* The session under fair scheduling: each thread that can take a step of  *)
(* its code eventually takes it (the kernel schedules every ready thread,  *)
(* furi_mutex_acquire with FuriWaitForever returns once the mutex stays    *)
(* free), and every resumption halts.  The arrival of timer ticks and of   *)
(* input events is left to the environment.                                *)
(***************************************************************************)
TimerCode ==
    \/ timer_callback_acquire \/ timer_callback_eval
    \/ timer_callback_redraw \/ timer_callback_release

InputCode ==
    \/ input_callback_acquire \/ input_callback_press
    \/ input_callback_release_key \/ input_callback_other
    \/ input_callback_cancel \/ input_callback_release

SpecFair ==
    /\ Spec
    /\ WF_vars(AppStep)
    /\ WF_vars(TimerCode)
    /\ WF_vars(InputCode)
    /\ WF_vars(vm_return)

\* the render loop has been left for good
LoopStopped == mpc \in {"free", "timer_stop", "unsubscribe", "close", "done"}

\* input_callback has run line 56 for a long press of Back
CancelHandled == ipc = "release" /\ event = BackLong

(***************************************************************************)
(* C11.  Termination on cancel: whenever input_callback has handled a long *)
(* press of Back, at any time after the subscription, the render loop      *)
(* eventually stops iterating.                                             *)
(***************************************************************************)
C11_TerminationOnCancel == [](CancelHandled => <>LoopStopped)

\* the long press was handled after furi_pubsub_subscribe and before line
\* 137, which then set running: the loop iterates with the request lost
C11_Witness ==
    /\ mpc = "delay"
    /\ running
    /\ nEvents = 2 /\ held = {"Back"} /\ ipc = "idle"
    /\ ctl.pressed = {"Back"}

(***************************************************************************)
(* C12.  Shutdown order: the resources are released in the reverse of the  *)
(* order lock, VM memory, colour planes, input subscription, timer: while  *)
(* the timer is running or input_callback is subscribed, neither the VM    *)
(* memory nor the planes have been freed, and the planes are freed no      *)
(* later than the VM memory.                                               *)
(***************************************************************************)
C12_ShutdownOrder ==
    /\ (timer = "running" \/ subscription) =>
          (ram # "freed" /\ uxn_screen.alloc # "freed")
    /\ ram = "freed" => uxn_screen.alloc = "freed"

\* lines 166-168 have freed the VM memory and the planes; the timer is
\* still running and input_callback still subscribed
C12_Witness ==
    /\ mpc = "timer_stop"
    /\ ram = "freed" /\ uxn_screen.alloc = "freed"
    /\ timer = "running" /\ subscription

\* both handlers are registered: lines 134-136 have run, lines 172-178 not
Registered == subscription /\ timer = "running"

\* the step stores to the device registers or to one of the two flags
WriteStep == dev' # dev \/ redraw' # redraw \/ running' # running

\* the thread whose code the step runs
Writer ==
    CASE mpc' # mpc -> "main"
      [] ipc' # ipc -> "input"
      [] tpc' # tpc -> "timer"
      [] OTHER -> vm.by

(***************************************************************************)
(* C13.  Writes only under the lock: while input_callback and the timer    *)
(* are registered, every step that changes a device register, redraw or    *)
(* running is taken by a thread that holds the mutex, the main thread      *)
(* included.                                                               *)
(***************************************************************************)
C13_WritesUnderLock == [][(Registered /\ WriteStep) => mutex = Writer]_vars

\* line 137 has stored true to running with both handlers registered while
\* input_callback, past its acquire, holds the mutex
C13_Witness ==
    /\ mpc = "leave" /\ running
    /\ Registered
    /\ mutex = "input" /\ ipc = "handle"

\* the file browser has returned without a selection
EmptySession == mpc \notin {"browse", "alloc"} /\ ram = "null"

(***************************************************************************)
(* C14.  Empty session: when no program file was selected, running is      *)
(* false in every state, uxn_app is never inside the body of the render    *)
(* loop, input_callback is not subscribed and no timer exists, neither     *)
(* handler runs, and the interpreter is never resumed.                     *)
(***************************************************************************)
C14_EmptySession ==
    EmptySession =>
        /\ ~running
        /\ mpc \in {"leave", "loop", "free", "timer_stop", "unsubscribe",
                    "close", "done"}
        /\ ~subscription /\ timer = "null"
        /\ ipc = "idle" /\ tpc = "idle"
        /\ vm = NoVM
        /\ nTicks = 0 /\ nEvents = 0
        /\ devScope = "null" /\ uxn_screen.alloc = "null"

\* uxn_app has returned from a session in which nothing was selected
C14_Witness ==
    /\ EmptySession
    /\ mpc = "done"
    /\ ~running /\ ~subscription /\ timer = "null"

\* the order of the steps of one call of timer_callback
TimerOrder ==
    {<<"idle", "acquire">>, <<"acquire", "vector">>, <<"vector", "eval">>,
     <<"eval", "setredraw">>, <<"setredraw", "release">>,
     <<"release", "idle">>}

(***************************************************************************)
(* C15.  Timer handler step: each call of timer_callback takes the mutex,  *)
(* calls uxn_eval once with the screen vector of registers 0x20/0x21,      *)
(* sets redraw once that call has returned, and releases the mutex, in     *)
(* this order and whatever the resumption did; redraw never turns true     *)
(* while a resumption is in flight or by any other step.                   *)
(***************************************************************************)
C15_TimerStep ==
    /\ [][tpc' # tpc => <<tpc, tpc'>> \in TimerOrder]_vars
    /\ [](Holding("timer") => mutex = "timer")
    /\ [][(vm.by # "timer" /\ vm'.by = "timer") =>
            /\ tpc = "vector" /\ tpc' = "eval"
            /\ vm'.ran = 0
            /\ vm'.addr = ByteAt(dev, ScreenVecHi) * 256
                            + ByteAt(dev, ScreenVecLo)]_vars
    /\ [][(tpc = "eval" /\ tpc' # "eval") =>
            (vm.by = "timer" /\ vm' = NoVM /\ redraw' = redraw)]_vars
    /\ [][(tpc = "setredraw" /\ tpc' = "release") =>
            (redraw' /\ vm = NoVM /\ mutex = "timer" /\ mutex' = "timer")]_vars
    /\ [][(~redraw /\ redraw') =>
            (tpc = "setredraw" /\ vm = NoVM /\ mutex = "timer")]_vars
    /\ []((tpc = "release") => redraw)

\* a tick whose resumption ran nothing (the screen vector is 0) and changed
\* no register and no plane has set the flag and still holds the mutex
C15_Witness ==
    /\ tpc = "release" /\ mutex = "timer"
    /\ redraw
    /\ dev = Zeroed
    /\ uxn_screen.fg = Zeroed /\ uxn_screen.bg = Zeroed
    /\ nTicks = 1

\* the order of the steps of one call of input_callback
InputOrder ==
    {<<"idle", "acquire">>, <<"acquire", "handle">>, <<"handle", "eval">>,
     <<"handle", "cancel">>, <<"eval", "cancel">>, <<"cancel", "release">>,
     <<"release", "idle">>}

KeyEvent == event.type \in {"Press", "Release"}

\* the button register shows the event being handled
MaskShowsEvent ==
    event.key \in Keys =>
        (HasBit(Mask, event.key) <=> event.type = "Press")

(***************************************************************************)
(* C16.  Controller vector scheduling: input_callback calls uxn_eval once  *)
(* for each press and each release, with the controller vector of          *)
(* registers 0x80/0x81 and after the button register has been updated for  *)
(* the event, so that the program's first read of port 0x82 returns the    *)
(* new mask; for an event of any other type it calls nothing and leaves    *)
(* every register as it is.                                                *)
(***************************************************************************)
C16_ControllerScheduling ==
    /\ [][ipc' # ipc => <<ipc, ipc'>> \in InputOrder]_vars
    /\ [][(ipc = "handle" /\ ipc' # ipc /\ KeyEvent) =>
            /\ ipc' = "eval"
            /\ vm'.by = "input" /\ vm'.ran = 0
            /\ vm'.addr = ByteAt(dev, CtrlVecHi) * 256 + ByteAt(dev, CtrlVecLo)
            /\ MaskShowsEvent']_vars
    /\ [][(vm.by # "input" /\ vm'.by = "input") =>
            (ipc = "handle" /\ KeyEvent)]_vars
    /\ []((ipc = "eval" /\ vm.ran = 0) => MaskShowsEvent)
    /\ []((ipc = "eval" /\ vm.ran = 1 /\ vm.call = NoDeo) =>
            (vm.acc = Mask /\ MaskShowsEvent))
    /\ []((Holding("input") /\ ~KeyEvent) => vm = NoVM)
    /\ [][(Holding("input") /\ ~KeyEvent) => dev' = dev]_vars

\* the program resumed for the press of Up has read port 0x82 and got the
\* mask with Up's bit in it
C16_Witness ==
    /\ ipc = "eval" /\ event = [key |-> "Up", type |-> "Press"]
    /\ vm.ran = 1 /\ vm.call = NoDeo
    /\ vm.acc = 16
    /\ vm.addr = 1

\* lines 166-168 have freed the VM memory and the planes
Freed == ram = "freed" \/ uxn_screen.alloc = "freed"

(***************************************************************************)
(* C17.  No use after release: once the VM memory or the planes have been  *)
(* freed, no resumption is in flight, and no step starts one, writes a     *)
(* device register or writes a plane.                                      *)
(***************************************************************************)
C17_NoUseAfterRelease ==
    /\ [](Freed => vm = NoVM)
    /\ [][Freed => (vm' = NoVM /\ dev' = dev /\ uxn_screen' = uxn_screen)]_vars

\* a tick that arrived after line 168 and before furi_timer_stop: its
\* resumption has drawn a pixel into the freed foreground plane
C17_Witness ==
    /\ mpc = "timer_stop" /\ timer = "running"
    /\ Freed
    /\ tpc = "eval" /\ vm.by = "timer" /\ vm.ran = 1
    /\ vm.call.delegated
    /\ ByteAt(uxn_screen.fg, 0) = 1
    /\ nTicks = 1

\* uxn_app has not yet returned from uxn_eval(0x100)
BeforeSubscribe == mpc \in {"browse", "alloc", "load", "reset", "eval"}

DevAccess ==
    \/ tpc = "vector" /\ tpc' = "eval"
    \/ ipc = "handle" /\ ipc' # ipc
    \/ vm.by \in {"input", "timer"} /\ vm'.by = vm.by /\ vm'.ran # vm.ran

(***************************************************************************)
(* C19.  Register-file lifetime: every access a handler or the program it  *)
(* resumed makes to the device registers happens while the array they      *)
(* live in is alive, that is before the block that declares it has ended.  *)
(***************************************************************************)
C19_RegisterFileLive == [][DevAccess => devScope = "live"]_vars

\* input_callback has updated the button register for a press while the
\* render loop runs, after the block declaring the array has ended
C19_Witness ==
    /\ devScope = "dead"
    /\ mpc = "delay"
    /\ ipc = "eval" /\ event.type = "Press" /\ vm.ran = 0
    /\ Registered

====
